---- MODULE Spec2Model ----
(***************************************************************************)
(* Model of the sightings query engine of avistamientos.py.                *)
(*                                                                         *)
(* The engine is a library of pure functions over a list of Avistamiento   *)
(* records.  The state is the caller's record list together with the last  *)
(* call made on it: the function called, its arguments and its outcome.    *)
(* There is one action per function; each action evaluates the function    *)
(* on the current list as the Python code evaluates it.  The list is a     *)
(* mutable object that the functions receive by reference: an action also  *)
(* says what the function leaves in it, and whether the object it returns  *)
(* is that very list.                                                      *)
(*                                                                         *)
(* Representation of Python values:                                        *)
(*   int                 an integer                                        *)
(*   float (a quotient)  an exact fraction [num, den] (rounding of the     *)
(*                       IEEE division is not modelled)                    *)
(*   str                 category fields (ciudad, estado, forma) are TLA+  *)
(*                       strings ordered through their code points         *)
(*                       (StrCodes); comentarios and palabra are sequences *)
(*                       of code points, so that len, lower and "in" are   *)
(*                       computed                                          *)
(*   datetime / date     records of their calendar fields                  *)
(*   list, tuple         a sequence                                        *)
(*   set                 a set                                             *)
(*   dict                a sequence of <<key, value>> pairs in insertion   *)
(*                       order (Python dicts enumerate in that order)      *)
(*   outcome of a call   Value(v), None or Raise(exception name)           *)
(***************************************************************************)
EXTENDS Integers, Sequences, FiniteSets, TLC

VARIABLES
    avistamientos,  \* the caller's list of records
    op,             \* name of the last function called ("" before any call)
    args,           \* its arguments, after the record list
    res,            \* its outcome
    aliased         \* the object returned is the caller's list itself

vars == <<avistamientos, op, args, res, aliased>>

(***************************************************************************)
(* Bounds                                                                  *)
(***************************************************************************)
\* longest record list considered
MaxLen == 3

(***************************************************************************)
(* Outcomes of a call                                                      *)
(***************************************************************************)
None == [kind |-> "None"]

Value(v) == [kind |-> "value", val |-> v]

Raise(e) == [kind |-> e]

\* a float obtained as the true division n / d
Frac(n, d) == [num |-> n, den |-> d]

(***************************************************************************)
(* Sequences                                                               *)
(***************************************************************************)
Range(s) == {s[i] : i \in 1..Len(s)}

RECURSIVE SumSeq(_)
\* sum(s)
SumSeq(s) == IF s = <<>> THEN 0 ELSE s[1] + SumSeq(Tail(s))

\* s[:n] for n >= 0
Prefix(s, n) == SubSeq(s, 1, IF n < Len(s) THEN n ELSE Len(s))

RECURSIVE Insert(_, _, _, _)
\* One step of the sort of s: e is placed in the sorted t, after every
\* element it must not precede, so that equal keys keep their order.
Insert(t, e, lt, reverse) ==
    IF t = <<>> THEN <<e>>
    ELSE IF IF reverse THEN lt[<<t[Len(t)], e>>] ELSE lt[<<e, t[Len(t)]>>]
         THEN Append(Insert(SubSeq(t, 1, Len(t) - 1), e, lt, reverse), t[Len(t)])
         ELSE Append(t, e)

RECURSIVE Sorted(_, _, _)
\* sorted(s, key=..., reverse=...) and list.sort: a stable sort.  lt[<<a, b>>]
\* is key(a) < key(b), for the elements a, b of s.  With reverse the order is
\* descending, and equal keys still keep their order in s.
Sorted(s, lt, reverse) ==
    IF s = <<>> THEN <<>>
    ELSE Insert(Sorted(SubSeq(s, 1, Len(s) - 1), lt, reverse),
                s[Len(s)], lt, reverse)

RECURSIVE MaxFrom(_, _, _, _)
MaxFrom(s, lt, k, best) ==
    IF k > Len(s) THEN best
    ELSE MaxFrom(s, lt, k + 1, IF lt[<<best, s[k]>>] THEN s[k] ELSE best)

\* max(s, key=...) for a list s that is not empty: the first element whose
\* key is the greatest.  lt[<<a, b>>] is key(a) < key(b).
Max(s, lt) == MaxFrom(s, lt, 2, s[1])

RECURSIVE SeqLT(_, _)
\* lexicographic order of two sequences of integers (Python's order of
\* str by code point, and of tuples of numbers)
SeqLT(a, b) ==
    IF b = <<>> THEN FALSE
    ELSE IF a = <<>> THEN TRUE
    ELSE IF a[1] # b[1] THEN a[1] < b[1]
    ELSE SeqLT(Tail(a), Tail(b))

(***************************************************************************)
(* Strings                                                                 *)
(***************************************************************************)
\* code points of the category strings that occur in the model
StrCodes ==
    [s \in {"CA", "NV", "TX", "light", "circle", "disk", "reno"} |->
        CASE s = "CA"     -> <<67, 65>>
          [] s = "NV"     -> <<78, 86>>
          [] s = "TX"     -> <<84, 88>>
          [] s = "light"  -> <<108, 105, 103, 104, 116>>
          [] s = "circle" -> <<99, 105, 114, 99, 108, 101>>
          [] s = "disk"   -> <<100, 105, 115, 107>>
          [] s = "reno"   -> <<114, 101, 110, 111>>]

\* a < b for two category strings
StrLT(a, b) == SeqLT(StrCodes[a], StrCodes[b])

\* str.lower() on ASCII letters
Lower(s) == [i \in 1..Len(s) |-> IF s[i] \in 65..90 THEN s[i] + 32 ELSE s[i]]

\* sub in s
Contains(sub, s) ==
    \E i \in 0..(Len(s) - Len(sub)) : SubSeq(s, i + 1, i + Len(sub)) = sub

(***************************************************************************)
(* datetime and date                                                       *)
(***************************************************************************)
Datetime(y, m, d, h, mi) ==
    [year |-> y, month |-> m, day |-> d, hour |-> h, minute |-> mi]

MkDate(y, m, d) == [year |-> y, month |-> m, day |-> d]

\* datetime.date()
DateOf(dt) == MkDate(dt.year, dt.month, dt.day)

DateTuple(d) == <<d.year, d.month, d.day>>

DatetimeTuple(dt) == <<dt.year, dt.month, dt.day, dt.hour, dt.minute>>

\* a <= b for two dates
DateLE(a, b) == ~SeqLT(DateTuple(b), DateTuple(a))

\* a < b for two datetimes
DatetimeLT(a, b) == SeqLT(DatetimeTuple(a), DatetimeTuple(b))

IsLeap(y) == y % 4 = 0 /\ (y % 100 # 0 \/ y % 400 = 0)

DaysBeforeMonth(y, m) ==
    <<0, 31, 59, 90, 120, 151, 181, 212, 243, 273, 304, 334>>[m]
        + (IF m > 2 /\ IsLeap(y) THEN 1 ELSE 0)

\* date.toordinal(): the day number, 0001-01-01 being day 1
Toordinal(d) ==
    LET y == d.year - 1
    IN  y * 365 + (y \div 4) - (y \div 100) + (y \div 400)
            + DaysBeforeMonth(d.year, d.month) + d.day

\* (d2 - d1).days
DaysBetween(d1, d2) == Toordinal(d2) - Toordinal(d1)

(***************************************************************************)
(* Coordenadas and distancia (module coordenadas)                          *)
(***************************************************************************)
Coordenadas(lat, lon) == [latitud |-> lat, longitud |-> lon]

Sqrt(n) == CHOOSE r \in 0..n : r * r = n

\* The planar metric: the Euclidean distance on raw latitude and longitude.
\* The points of the model are corners of a 3 x 4 rectangle, so that every
\* distance is a whole number and the square root is exact.
distancia(a, b) ==
    Sqrt((a.latitud - b.latitud) * (a.latitud - b.latitud)
            + (a.longitud - b.longitud) * (a.longitud - b.longitud))

\* d < radio, for a whole d and a radio given as a fraction
LessThanFrac(d, radio) == d * radio.den < radio.num

(***************************************************************************)
(* Avistamiento                                                            *)
(***************************************************************************)
Avistamiento(fh, ciu, est, fo, dur, com, ubi) ==
    [fechahora |-> fh, ciudad |-> ciu, estado |-> est, forma |-> fo,
     duracion |-> dur, comentarios |-> com, ubicacion |-> ubi]

\* a < b as Python compares the two named tuples: field by field in the
\* order of declaration
AvistamientoLT(a, b) ==
    IF a.fechahora # b.fechahora THEN DatetimeLT(a.fechahora, b.fechahora)
    ELSE IF a.ciudad # b.ciudad THEN StrLT(a.ciudad, b.ciudad)
    ELSE IF a.estado # b.estado THEN StrLT(a.estado, b.estado)
    ELSE IF a.forma # b.forma THEN StrLT(a.forma, b.forma)
    ELSE IF a.duracion # b.duracion THEN a.duracion < b.duracion
    ELSE IF a.comentarios # b.comentarios
        THEN SeqLT(a.comentarios, b.comentarios)
    ELSE SeqLT(<<a.ubicacion.latitud, a.ubicacion.longitud>>,
               <<b.ubicacion.latitud, b.ubicacion.longitud>>)

\* the relation key(a) < key(b) on the records of s, for each sort key of
\* the module
LtFechahora(s) ==
    [p \in Range(s) \X Range(s) |-> DatetimeLT(p[1].fechahora, p[2].fechahora)]

LtDuracion(s) ==
    [p \in Range(s) \X Range(s) |-> p[1].duracion < p[2].duracion]

LtLenComentarios(s) ==
    [p \in Range(s) \X Range(s) |-> Len(p[1].comentarios) < Len(p[2].comentarios)]

LtAvistamiento(s) ==
    [p \in Range(s) \X Range(s) |-> AvistamientoLT(p[1], p[2])]

(***************************************************************************)
(* Dictionaries                                                            *)
(***************************************************************************)
DictHas(d, k) == \E i \in 1..Len(d) : d[i][1] = k

DictGet(d, k) == d[CHOOSE i \in 1..Len(d) : d[i][1] = k][2]

\* d[k] = v: a new key goes last, an old key keeps its place
DictPut(d, k, v) ==
    IF DictHas(d, k)
    THEN [i \in 1..Len(d) |-> IF d[i][1] = k THEN <<k, v>> ELSE d[i]]
    ELSE Append(d, <<k, v>>)

\* d.values()
DictValues(d) == [i \in 1..Len(d) |-> d[i][2]]

RECURSIVE Counter(_)
\* collections.Counter(keys): counts by key, keys in order of first occurrence
Counter(keys) ==
    IF keys = <<>> THEN <<>>
    ELSE LET d == Counter(SubSeq(keys, 1, Len(keys) - 1))
             k == keys[Len(keys)]
         IN  DictPut(d, k, IF DictHas(d, k) THEN DictGet(d, k) + 1 ELSE 1)

RECURSIVE GroupLists(_)
\* d = defaultdict(list) filled by d[k].append(x) for each <<k, x>> of pairs
GroupLists(pairs) ==
    IF pairs = <<>> THEN <<>>
    ELSE LET d == GroupLists(SubSeq(pairs, 1, Len(pairs) - 1))
             k == pairs[Len(pairs)][1]
             x == pairs[Len(pairs)][2]
         IN  DictPut(d, k, Append(IF DictHas(d, k) THEN DictGet(d, k) ELSE <<>>, x))

(***************************************************************************)
(* The engine                                                              *)
(***************************************************************************)
\* 2.1 with a bug: the records of the date are collected in a set and counted
numero_avistamientos_fecha_distintos(avs, fecha) ==
    Value(Cardinality({a \in Range(avs) : DateOf(a.fechahora) = fecha}))

RECURSIVE numero_avistamientos_fecha(_, _)
\* 2.1: the loop over avs, the last record last
numero_avistamientos_fecha(avs, fecha) ==
    IF avs = <<>> THEN Value(0)
    ELSE LET contador ==
                numero_avistamientos_fecha(SubSeq(avs, 1, Len(avs) - 1), fecha).val
             a == avs[Len(avs)]
         IN  Value(IF DateOf(a.fechahora) = fecha THEN contador + 1 ELSE contador)

\* 2.4 with a bug: <= in place of <
avistamientos_cercanos_ubicacion_inclusivo(avs, ubicacion, radio) ==
    Value({avs[i] : i \in {j \in 1..Len(avs) :
        \/ LessThanFrac(distancia(avs[j].ubicacion, ubicacion), radio)
        \/ distancia(avs[j].ubicacion, ubicacion) * radio.den = radio.num}})

RECURSIVE avistamientos_cercanos_ubicacion(_, _, _)
\* 2.4: the loop over avs, the last record last
avistamientos_cercanos_ubicacion(avs, ubicacion, radio) ==
    IF avs = <<>> THEN Value({})
    ELSE LET r == avistamientos_cercanos_ubicacion(
                        SubSeq(avs, 1, Len(avs) - 1), ubicacion, radio).val
             a == avs[Len(avs)]
         IN  Value(IF LessThanFrac(distancia(a.ubicacion, ubicacion), radio)
                   THEN r \cup {a} ELSE r)

\* 3.1
avistamiento_mayor_duracion(avs, forma) ==
    LET avistamientos_forma == SelectSeq(avs, LAMBDA a : a.forma = forma)
    IN  IF avistamientos_forma = <<>>
        THEN Raise("ValueError")   \* max() arg is an empty sequence
        ELSE Value(Max(avistamientos_forma, LtDuracion(avistamientos_forma)))

\* s < t for two (duracion, comentarios) tuples
DurComLT(s, t) == s[1] < t[1] \/ (s[1] = t[1] /\ SeqLT(s[2], t[2]))

\* 3.2 with a bug: the maximum is taken by duration alone, over the
\* records in the order of the list
avistamiento_cercano_mayor_duracion_sin_desempate(avs, coordenadas, radio) ==
    LET cercanos == avistamientos_cercanos_ubicacion(avs, coordenadas, radio).val
        lista == SelectSeq(avs, LAMBDA a : a \in cercanos)
        m == Max(lista, LtDuracion(lista))
    IN  IF Cardinality(cercanos) > 0
        THEN Value(<<m.duracion, m.comentarios>>)
        ELSE None

\* 3.2: the maximum of the tuples of a set; whatever the order in which the
\* set is enumerated, it is the tuple that no other tuple exceeds
avistamiento_cercano_mayor_duracion(avs, coordenadas, radio) ==
    LET cercanos == avistamientos_cercanos_ubicacion(avs, coordenadas, radio).val
        pares == {<<a.duracion, a.comentarios>> : a \in cercanos}
    IN  IF Cardinality(cercanos) > 0
        THEN Value(CHOOSE m \in pares : \A t \in pares : ~DurComLT(m, t))
        ELSE None

\* 3.3 with a bug: the sort key is the calendar date, not the timestamp
avistamientos_fechas_por_dia(avs, fecha_inicial, fecha_final) ==
    LET seleccion == SelectSeq(avs, LAMBDA a :
            /\ (fecha_inicial = None \/ DateLE(fecha_inicial, DateOf(a.fechahora)))
            /\ (fecha_final = None \/ DateLE(DateOf(a.fechahora), fecha_final)))
    IN  Value(Sorted(seleccion,
                [p \in Range(seleccion) \X Range(seleccion) |->
                    ~DateLE(DateOf(p[2].fechahora), DateOf(p[1].fechahora))],
                TRUE))

\* 3.3 (fecha_inicial and fecha_final are None or a date)
avistamientos_fechas(avs, fecha_inicial, fecha_final) ==
    LET seleccion == SelectSeq(avs, LAMBDA a :
            /\ (fecha_inicial = None \/ DateLE(fecha_inicial, DateOf(a.fechahora)))
            /\ (fecha_final = None \/ DateLE(DateOf(a.fechahora), fecha_final)))
    IN  Value(Sorted(seleccion, LtFechahora(seleccion), TRUE))

\* 3.4
comentario_mas_largo(avs, anyo, palabra) ==
    LET avistamientos_filtrado ==
            SelectSeq(avs, LAMBDA a :
                /\ a.fechahora.year = anyo
                /\ Contains(Lower(palabra), Lower(a.comentarios)))
    IN  IF avistamientos_filtrado = <<>>
        THEN Raise("ValueError")   \* max() arg is an empty sequence
        ELSE Value(Max(avistamientos_filtrado,
                       LtLenComentarios(avistamientos_filtrado)))

\* the day differences of the consecutive records of s
DiasConsecutivos(s) ==
    [i \in 1..(Len(s) - 1) |->
        DaysBetween(DateOf(s[i].fechahora), DateOf(s[i + 1].fechahora))]

\* 3.5 with a bug: the records are not sorted
media_dias_entre_avistamientos_sin_ordenar(avs, anyo) ==
    LET avistamientos_anyo ==
            IF anyo = None THEN avs
            ELSE SelectSeq(avs, LAMBDA a : a.fechahora.year = anyo.val)
        dias == DiasConsecutivos(avistamientos_anyo)
    IN  IF Len(dias) > 0 THEN Value(Frac(SumSeq(dias), Len(dias))) ELSE None

\* 3.5 with a bug: the mean is taken without the test for an empty list
media_dias_entre_avistamientos_sin_guarda(avs, anyo) ==
    LET filtrado == IF anyo = None THEN avs
                    ELSE SelectSeq(avs, LAMBDA a : a.fechahora.year = anyo.val)
        avistamientos_anyo == Sorted(filtrado, LtAvistamiento(filtrado), FALSE)
        dias == DiasConsecutivos(avistamientos_anyo)
    IN  IF Len(dias) = 0 THEN Raise("ZeroDivisionError")
        ELSE Value(Frac(SumSeq(dias), Len(dias)))

\* 3.5 with a bug: the days of the difference of the two timestamps,
\* (a2.fechahora - a1.fechahora).days, in place of the difference of the dates
media_dias_entre_avistamientos_por_instantes(avs, anyo) ==
    LET filtrado == IF anyo = None THEN avs
                    ELSE SelectSeq(avs, LAMBDA a : a.fechahora.year = anyo.val)
        avistamientos_anyo == Sorted(filtrado, LtAvistamiento(filtrado), FALSE)
        minutos(dt) == (Toordinal(DateOf(dt)) * 24 + dt.hour) * 60 + dt.minute
        dias == [i \in 1..(Len(avistamientos_anyo) - 1) |->
                    (minutos(avistamientos_anyo[i + 1].fechahora)
                        - minutos(avistamientos_anyo[i].fechahora)) \div 1440]
    IN  IF Len(dias) > 0 THEN Value(Frac(SumSeq(dias), Len(dias))) ELSE None

\* 3.5 (anyo is None or Value(year))
media_dias_entre_avistamientos(avs, anyo) ==
    LET filtrado == IF anyo = None THEN avs
                    ELSE SelectSeq(avs, LAMBDA a : a.fechahora.year = anyo.val)
        avistamientos_anyo == Sorted(filtrado, LtAvistamiento(filtrado), FALSE)
        dias == DiasConsecutivos(avistamientos_anyo)
    IN  IF Len(dias) > 0 THEN Value(Frac(SumSeq(dias), Len(dias))) ELSE None

\* 4.7
longitud_media_comentarios_por_estado(avs) ==
    LET longitudes_comentarios_por_estado ==
            GroupLists([i \in 1..Len(avs) |->
                            <<avs[i].estado, Len(avs[i].comentarios)>>])
    IN  IF \E i \in 1..Len(longitudes_comentarios_por_estado) :
                Len(longitudes_comentarios_por_estado[i][2]) = 0
        THEN Raise("ZeroDivisionError")
        ELSE Value([i \in 1..Len(longitudes_comentarios_por_estado) |->
                LET estado == longitudes_comentarios_por_estado[i][1]
                    longitudes == longitudes_comentarios_por_estado[i][2]
                IN  <<estado, Frac(SumSeq(longitudes), Len(longitudes))>>])

\* res[forma] = 100 * conteo / total_avistamientos, for every item of the
\* Counter; the division raises when the total is 0
Porcentajes(conteo_por_formas, total_avistamientos) ==
    IF Len(conteo_por_formas) > 0 /\ total_avistamientos = 0
    THEN Raise("ZeroDivisionError")
    ELSE Value([i \in 1..Len(conteo_por_formas) |->
            LET forma == conteo_por_formas[i][1]
                conteo == conteo_por_formas[i][2]
            IN  <<forma, Frac(100 * conteo, total_avistamientos)>>])

\* 4.8: the first def of the name porc_avistamientos_por_forma
porc_avistamientos_por_forma_4_8(avs) ==
    LET conteo_por_formas == Counter([i \in 1..Len(avs) |-> avs[i].forma])
        total_avistamientos == Len(avs)
    IN  Porcentajes(conteo_por_formas, total_avistamientos)

\* 4.8 BIS with a bug: the total is that of 4.8, the length of the input
porc_avistamientos_por_forma_4_8_BIS_total_global(avs, anyo) ==
    LET delAnyo == SelectSeq(avs, LAMBDA a : a.fechahora.year = anyo)
        conteo_por_formas == Counter([i \in 1..Len(delAnyo) |-> delAnyo[i].forma])
        total_avistamientos == Len(avs)
    IN  Porcentajes(conteo_por_formas, total_avistamientos)

\* 4.8 BIS: the second def of the same name
porc_avistamientos_por_forma_4_8_BIS(avs, anyo) ==
    LET delAnyo == SelectSeq(avs, LAMBDA a : a.fechahora.year = anyo)
        conteo_por_formas == Counter([i \in 1..Len(delAnyo) |-> delAnyo[i].forma])
        total_avistamientos == SumSeq(DictValues(conteo_por_formas))
    IN  Porcentajes(conteo_por_formas, total_avistamientos)

\* The defs of the module that bind the name porc_avistamientos_por_forma,
\* in source order, each with its number of parameters.
Defs_porc_avistamientos_por_forma ==
    <<[body |-> "4.8", params |-> 1], [body |-> "4.8 BIS", params |-> 2]>>

\* A def statement rebinds the name: once the module is loaded the name is
\* bound to the last def.
Binding(defs) == defs[Len(defs)]

\* A call porc_avistamientos_por_forma(avs, *extra): Python raises TypeError
\* when the number of arguments is not that of the bound function.
porc_avistamientos_por_forma(avs, extra) ==
    LET f == Binding(Defs_porc_avistamientos_por_forma)
    IN  IF 1 + Len(extra) # f.params THEN Raise("TypeError")
        ELSE IF f.body = "4.8" THEN porc_avistamientos_por_forma_4_8(avs)
        ELSE porc_avistamientos_por_forma_4_8_BIS(avs, extra[1])

\* 4.9 with a bug: an ascending sort that is then reversed, which reverses
\* the records of equal duration
avistamientos_mayor_duracion_por_estado_invertido(avs, n) ==
    LET avistamientos_por_estados ==
            GroupLists([i \in 1..Len(avs) |-> <<avs[i].estado, avs[i]>>])
    IN  Value([i \in 1..Len(avistamientos_por_estados) |->
            LET estado == avistamientos_por_estados[i][1]
                asc == Sorted(avistamientos_por_estados[i][2],
                              LtDuracion(avistamientos_por_estados[i][2]), FALSE)
            IN  <<estado, Prefix([k \in 1..Len(asc) |-> asc[Len(asc) + 1 - k]], n)>>])

\* 4.9 (n >= 0)
avistamientos_mayor_duracion_por_estado(avs, n) ==
    LET avistamientos_por_estados ==
            GroupLists([i \in 1..Len(avs) |-> <<avs[i].estado, avs[i]>>])
    IN  Value([i \in 1..Len(avistamientos_por_estados) |->
            LET estado == avistamientos_por_estados[i][1]
                avistamientos_estado == avistamientos_por_estados[i][2]
            IN  <<estado, Prefix(Sorted(avistamientos_estado,
                                        LtDuracion(avistamientos_estado), TRUE), n)>>])

RECURSIVE avistamientos_por_fecha_ultimo(_)
\* 4.1 with a bug: the set of the date is replaced by the set of the record
avistamientos_por_fecha_ultimo(avs) ==
    IF avs = <<>> THEN Value(<<>>)
    ELSE LET r == avistamientos_por_fecha_ultimo(SubSeq(avs, 1, Len(avs) - 1)).val
             a == avs[Len(avs)]
         IN  Value(DictPut(r, DateOf(a.fechahora), {a}))

RECURSIVE avistamientos_por_fecha(_)
\* 4.1: the loop over avs, the last record last
avistamientos_por_fecha(avs) ==
    IF avs = <<>> THEN Value(<<>>)
    ELSE LET r == avistamientos_por_fecha(SubSeq(avs, 1, Len(avs) - 1)).val
             a == avs[Len(avs)]
             fecha == DateOf(a.fechahora)
             r1 == IF ~DictHas(r, fecha) THEN DictPut(r, fecha, {}) ELSE r
         IN  Value(DictPut(r1, fecha, DictGet(r1, fecha) \cup {a}))

\* the relation count(a) < count(b) on the items <<key, count>> of a Counter
LtConteo(d) ==
    [p \in Range(d) \X Range(d) |-> p[1][2] < p[2][2]]

\* 4.5 with a bug: among the states of the greatest count, the last one
\* counted is returned
estado_mas_avistamientos_ultimo(avs) ==
    LET conteo_por_estado == Counter([i \in 1..Len(avs) |-> avs[i].estado])
        alreves == [i \in 1..Len(conteo_por_estado) |->
                        conteo_por_estado[Len(conteo_por_estado) + 1 - i]]
    IN  IF conteo_por_estado = <<>>
        THEN Raise("ValueError")
        ELSE Value(Max(alreves, LtConteo(alreves))[1])

\* 4.5: max() over the items of the Counter, by count
estado_mas_avistamientos(avs) ==
    LET conteo_por_estado == Counter([i \in 1..Len(avs) |-> avs[i].estado])
    IN  IF conteo_por_estado = <<>>
        THEN Raise("ValueError")   \* max() arg is an empty sequence
        ELSE Value(Max(conteo_por_estado, LtConteo(conteo_por_estado))[1])

\* Counter.most_common(n): the n first items of the Counter sorted by count,
\* descending (a stable sort: items of equal count keep the Counter's order)
MostCommon(c, n) == Prefix(Sorted(c, LtConteo(c), TRUE), n)

\* 4.6
hora_mas_avistamientos(avs) ==
    LET c == Counter([i \in 1..Len(avs) |-> avs[i].fechahora.hour])
    IN  IF MostCommon(c, 1) = <<>>
        THEN Raise("IndexError")   \* [0] on an empty list
        ELSE Value(MostCommon(c, 1)[1][1])

\* 4.10 (año_mas_avistamientos_forma): the body is the statement pass, after
\* which the function returns None
anyo_mas_avistamientos_forma(avs, forma) == None

\* 4.11: the body is the statement pass
estados_mas_avistamientos(avs, n) == None

\* 4.12 (duracion_total_avistamientos_año): the body is the statement pass
duracion_total_avistamientos_anyo(avs, estado) == None

(***************************************************************************)
(* The engine: the other functions that have a numbered variant, and the   *)
(* numbered variants                                                       *)
(***************************************************************************)
\* 2.1, by comprehension: the length of the list of the selected records
numero_avistamientos_fecha2(avs, fecha) ==
    Value(Len(SelectSeq(avs, LAMBDA a : DateOf(a.fechahora) = fecha)))

RECURSIVE ConjuntoFormas(_, _)
\* 2.2: conjunto_formas after the loop over avs
ConjuntoFormas(avs, estados) ==
    IF avs = <<>> THEN {}
    ELSE LET conjunto_formas == ConjuntoFormas(SubSeq(avs, 1, Len(avs) - 1), estados)
             a == avs[Len(avs)]
         IN  IF a.estado \in estados
             THEN conjunto_formas \cup {a.forma} ELSE conjunto_formas

\* 2.2
formas_estados(avs, estados) == Value(Cardinality(ConjuntoFormas(avs, estados)))

\* 2.2, by comprehension
formas_estados2(avs, estados) ==
    Value(Cardinality({avs[i].forma :
                        i \in {j \in 1..Len(avs) : avs[j].estado \in estados}}))

RECURSIVE duracion_total(_, _)
\* 2.3: the loop over avs, the last record last
duracion_total(avs, estado) ==
    IF avs = <<>> THEN Value(0)
    ELSE LET duracion == duracion_total(SubSeq(avs, 1, Len(avs) - 1), estado).val
             a == avs[Len(avs)]
         IN  Value(IF a.estado = estado THEN duracion + a.duracion ELSE duracion)

\* 2.3, by comprehension: the sum of the durations of the selected records
duracion_total2(avs, estado) ==
    LET seleccion == SelectSeq(avs, LAMBDA a : a.estado = estado)
    IN  Value(SumSeq([i \in 1..Len(seleccion) |-> seleccion[i].duracion]))

\* 2.4, by comprehension
avistamientos_cercanos_ubicacion2(avs, ubicacion, radio) ==
    Value({avs[i] : i \in {j \in 1..Len(avs) :
        LessThanFrac(distancia(avs[j].ubicacion, ubicacion), radio)}})

\* 3.1, by comprehension: max() over the generator of the selected records
avistamiento_mayor_duracion2(avs, forma) ==
    LET generados == SelectSeq(avs, LAMBDA a : a.forma = forma)
    IN  IF generados = <<>>
        THEN Raise("ValueError")   \* max() arg is an empty sequence
        ELSE Value(Max(generados, LtDuracion(generados)))

RECURSIVE avistamientos_por_fecha2(_)
\* 4.1 with defaultdict(set): reading res[fecha] creates the empty set of a
\* date that is not a key
avistamientos_por_fecha2(avs) ==
    IF avs = <<>> THEN Value(<<>>)
    ELSE LET r == avistamientos_por_fecha2(SubSeq(avs, 1, Len(avs) - 1)).val
             a == avs[Len(avs)]
             fecha == DateOf(a.fechahora)
             conjunto == IF DictHas(r, fecha) THEN DictGet(r, fecha) ELSE {}
         IN  Value(DictPut(r, fecha, conjunto \cup {a}))

meses ==
    <<"Enero", "Febrero", "Marzo", "Abril", "Mayo", "Junio", "Julio",
      "Agosto", "Septiembre", "Octubre", "Noviembre", "Diciembre">>

RECURSIVE formas_por_mes(_)
\* 4.2: the loop over avs with defaultdict(set)
formas_por_mes(avs) ==
    IF avs = <<>> THEN Value(<<>>)
    ELSE LET r == formas_por_mes(SubSeq(avs, 1, Len(avs) - 1)).val
             a == avs[Len(avs)]
             mes == meses[a.fechahora.month]
             conjunto == IF DictHas(r, mes) THEN DictGet(r, mes) ELSE {}
         IN  Value(DictPut(r, mes, conjunto \cup {a.forma}))

\* 4.2, second version: locale.setlocale(locale.LC_TIME, '') followed by the
\* statement pass.  setlocale raises locale.Error when the locale named by
\* the environment of the process is not installed; otherwise the function
\* returns None.
formas_por_mes2(avs, locale_instalado) ==
    IF locale_instalado THEN None ELSE Raise("locale.Error")

RECURSIVE numero_avistamientos_por_anyo(_)
\* 4.3 (numero_avistamientos_por_año): the loop over avs with a dict
numero_avistamientos_por_anyo(avs) ==
    IF avs = <<>> THEN Value(<<>>)
    ELSE LET r == numero_avistamientos_por_anyo(SubSeq(avs, 1, Len(avs) - 1)).val
             a == avs[Len(avs)]
             r1 == IF ~DictHas(r, a.fechahora.year)
                   THEN DictPut(r, a.fechahora.year, 0) ELSE r
         IN  Value(DictPut(r1, a.fechahora.year, DictGet(r1, a.fechahora.year) + 1))

\* 4.3 with a Counter (numero_avistamientos_por_año2)
numero_avistamientos_por_anyo2(avs) ==
    Value(Counter([i \in 1..Len(avs) |-> avs[i].fechahora.year]))

RECURSIVE numero_avistamientos_por_anyo3(_)
\* 4.3 with defaultdict(int) (numero_avistamientos_por_año3): a year that is
\* not a key reads as 0
numero_avistamientos_por_anyo3(avs) ==
    IF avs = <<>> THEN Value(<<>>)
    ELSE LET r == numero_avistamientos_por_anyo3(SubSeq(avs, 1, Len(avs) - 1)).val
             a == avs[Len(avs)]
             n == IF DictHas(r, a.fechahora.year)
                  THEN DictGet(r, a.fechahora.year) ELSE 0
         IN  Value(DictPut(r, a.fechahora.year, n + 1))

(***************************************************************************)
(* The caller's list after a call                                          *)
(***************************************************************************)
\* What a call leaves behind besides its outcome: the content of the caller's
\* list, and whether the object returned is the caller's list itself.
Effect(lista, mismo) == [avistamientos |-> lista, aliased |-> mismo]

\* 3.3: the records are appended to the new list of line 238; that list is
\* the one sorted in place (line 242) and returned
avistamientos_fechas_efecto(avs, fecha_inicial, fecha_final) ==
    Effect(avs, FALSE)

\* 3.5 with a bug: the sort in place of line 290 in place of sorted(); with
\* no year the list sorted is the caller's
media_dias_entre_avistamientos_efecto_sort(avs, anyo) ==
    Effect(IF anyo = None THEN Sorted(avs, LtAvistamiento(avs), FALSE) ELSE avs,
           FALSE)

\* 3.5: with no year avistamientos_anyo names the caller's list (line 286),
\* else a new list (line 288); sorted() (line 291) reads it and builds
\* another list, to which the name is rebound.  A float or None is returned.
media_dias_entre_avistamientos_efecto(avs, anyo) ==
    Effect(avs, FALSE)

\* 4.9: the lists sorted in place (line 583) are those of the defaultdict
\* built at lines 578-580, and the values returned are slices of them
avistamientos_mayor_duracion_por_estado_efecto(avs, n) ==
    Effect(avs, FALSE)

\* a function that only reads the list (a for loop or a comprehension over
\* it) and returns a number, a tuple, a record or a collection it has built
SoloLectura(avs) == Effect(avs, FALSE)

(***************************************************************************)
(* Inputs                                                                  *)
(***************************************************************************)
T_2019_12_31_23h == Datetime(2019, 12, 31, 23, 0)
T_2020_01_01_10h == Datetime(2020, 1, 1, 10, 0)
T_2020_01_01_23h == Datetime(2020, 1, 1, 23, 0)
T_2020_01_10_10h == Datetime(2020, 1, 10, 10, 0)
T_2020_01_20_10h == Datetime(2020, 1, 20, 10, 0)

FechasHoras ==
    {T_2019_12_31_23h, T_2020_01_01_10h, T_2020_01_01_23h,
     T_2020_01_10_10h, T_2020_01_20_10h}

Formas == {"light", "circle"}

\* corners of a 3 x 4 rectangle
P00 == Coordenadas(0, 0)
P30 == Coordenadas(3, 0)
P04 == Coordenadas(0, 4)

\* a state and a place in it
Sitios == {<<"CA", P30>>, <<"NV", P04>>}

Duraciones == {5, 9}

\* "a", "Ab"
Comentarios == {<<97>>, <<65, 98>>}

\* records that differ in time and shape
PoolFechas ==
    {Avistamiento(t, "reno", "NV", f, 5, <<97>>, P04) :
        t \in FechasHoras, f \in Formas}

\* records that differ in state and place, duration and comments
PoolSitios ==
    {Avistamiento(T_2020_01_01_10h, "reno", s[1], "light", d, c, s[2]) :
        s \in Sitios, d \in Duraciones, c \in Comentarios}

\* records that differ in state and place, and shape
PoolFormas ==
    {Avistamiento(T_2020_01_01_10h, "reno", s[1], f, 5, <<97>>, s[2]) :
        s \in Sitios, f \in Formas}

\* the lists of at most n records of pool
RECURSIVE Lists(_, _)
Lists(pool, n) ==
    IF n = 0 THEN {<<>>}
    ELSE LET shorter == Lists(pool, n - 1)
         IN  shorter \cup {Append(l, a) : l \in shorter, a \in pool}

Inputs ==
    Lists(PoolFechas, MaxLen) \cup Lists(PoolSitios, MaxLen)
        \cup Lists(PoolFormas, MaxLen)

\* arguments
ArgFechas == {MkDate(2019, 12, 31), MkDate(2020, 1, 1), MkDate(2020, 1, 10)}
ArgFechasOpt == ArgFechas \cup {None}
ArgFormas == Formas \cup {"disk"}
ArgAnyos == {2019, 2020, 2021}
ArgAnyosOpt == {Value(y) : y \in ArgAnyos} \cup {None}
\* "a", "B", "c"
ArgPalabras == {<<97>>, <<66>>, <<99>>}
ArgPuntos == {P00, P30}
\* 0.5 (the default of 3.2), 3, 4, 6
ArgRadios == {Frac(1, 2), Frac(3, 1), Frac(4, 1), Frac(6, 1)}
ArgN == 0..MaxLen
ArgEstados == {"CA", "NV", "TX"}
ArgConjuntosEstados == {{}, {"CA"}, {"NV", "TX"}, {"CA", "NV"}}

(***************************************************************************)
(* Specification                                                           *)
(***************************************************************************)
Init ==
    /\ avistamientos \in Inputs
    /\ op = ""
    /\ args = <<>>
    /\ res = None
    /\ aliased = FALSE

\* The caller is single-threaded and the engine synchronous: a call is made
\* when no result is outstanding.  The call f(avistamientos, *a) returns or
\* raises r and has the effect e on the caller's list.
CallEffect(f, a, r, e) ==
    /\ op = ""
    /\ op' = f
    /\ args' = a
    /\ res' = r
    /\ avistamientos' = e.avistamientos
    /\ aliased' = e.aliased

\* a call of a function that only reads the list
Call(f, a, r) == CallEffect(f, a, r, SoloLectura(avistamientos))

Call_numero_avistamientos_fecha ==
    \E fecha \in ArgFechas :
        Call("numero_avistamientos_fecha", <<fecha>>,
             numero_avistamientos_fecha(avistamientos, fecha))

Call_avistamientos_cercanos_ubicacion ==
    \E ubicacion \in ArgPuntos, radio \in ArgRadios :
        Call("avistamientos_cercanos_ubicacion", <<ubicacion, radio>>,
             avistamientos_cercanos_ubicacion(avistamientos, ubicacion, radio))

Call_avistamiento_mayor_duracion ==
    \E forma \in ArgFormas :
        Call("avistamiento_mayor_duracion", <<forma>>,
             avistamiento_mayor_duracion(avistamientos, forma))

Call_avistamiento_cercano_mayor_duracion ==
    \E coordenadas \in ArgPuntos, radio \in ArgRadios :
        Call("avistamiento_cercano_mayor_duracion", <<coordenadas, radio>>,
             avistamiento_cercano_mayor_duracion(avistamientos, coordenadas, radio))

Call_avistamientos_fechas ==
    \E fecha_inicial \in ArgFechasOpt, fecha_final \in ArgFechasOpt :
        CallEffect("avistamientos_fechas", <<fecha_inicial, fecha_final>>,
             avistamientos_fechas(avistamientos, fecha_inicial, fecha_final),
             avistamientos_fechas_efecto(avistamientos, fecha_inicial, fecha_final))

Call_comentario_mas_largo ==
    \E anyo \in ArgAnyos, palabra \in ArgPalabras :
        Call("comentario_mas_largo", <<anyo, palabra>>,
             comentario_mas_largo(avistamientos, anyo, palabra))

Call_media_dias_entre_avistamientos ==
    \E anyo \in ArgAnyosOpt :
        CallEffect("media_dias_entre_avistamientos", <<anyo>>,
             media_dias_entre_avistamientos(avistamientos, anyo),
             media_dias_entre_avistamientos_efecto(avistamientos, anyo))

Call_longitud_media_comentarios_por_estado ==
    Call("longitud_media_comentarios_por_estado", <<>>,
         longitud_media_comentarios_por_estado(avistamientos))

Call_porc_avistamientos_por_forma ==
    \E extra \in {<<>>} \cup {<<anyo>> : anyo \in ArgAnyos} :
        Call("porc_avistamientos_por_forma", extra,
             porc_avistamientos_por_forma(avistamientos, extra))

Call_avistamientos_mayor_duracion_por_estado ==
    \E n \in ArgN :
        CallEffect("avistamientos_mayor_duracion_por_estado", <<n>>,
             avistamientos_mayor_duracion_por_estado(avistamientos, n),
             avistamientos_mayor_duracion_por_estado_efecto(avistamientos, n))

Call_numero_avistamientos_fecha2 ==
    \E fecha \in ArgFechas :
        Call("numero_avistamientos_fecha2", <<fecha>>,
             numero_avistamientos_fecha2(avistamientos, fecha))

Call_formas_estados ==
    \E estados \in ArgConjuntosEstados :
        Call("formas_estados", <<estados>>,
             formas_estados(avistamientos, estados))

Call_formas_estados2 ==
    \E estados \in ArgConjuntosEstados :
        Call("formas_estados2", <<estados>>,
             formas_estados2(avistamientos, estados))

Call_duracion_total ==
    \E estado \in ArgEstados :
        Call("duracion_total", <<estado>>,
             duracion_total(avistamientos, estado))

Call_duracion_total2 ==
    \E estado \in ArgEstados :
        Call("duracion_total2", <<estado>>,
             duracion_total2(avistamientos, estado))

Call_avistamientos_cercanos_ubicacion2 ==
    \E ubicacion \in ArgPuntos, radio \in ArgRadios :
        Call("avistamientos_cercanos_ubicacion2", <<ubicacion, radio>>,
             avistamientos_cercanos_ubicacion2(avistamientos, ubicacion, radio))

Call_avistamiento_mayor_duracion2 ==
    \E forma \in ArgFormas :
        Call("avistamiento_mayor_duracion2", <<forma>>,
             avistamiento_mayor_duracion2(avistamientos, forma))

Call_avistamientos_por_fecha2 ==
    Call("avistamientos_por_fecha2", <<>>,
         avistamientos_por_fecha2(avistamientos))

Call_formas_por_mes ==
    Call("formas_por_mes", <<>>, formas_por_mes(avistamientos))

\* whether the locale of the environment is installed is not known to the
\* caller
Call_formas_por_mes2 ==
    \E locale_instalado \in BOOLEAN :
        Call("formas_por_mes2", <<>>,
             formas_por_mes2(avistamientos, locale_instalado))

Call_numero_avistamientos_por_anyo ==
    Call("numero_avistamientos_por_anyo", <<>>,
         numero_avistamientos_por_anyo(avistamientos))

Call_numero_avistamientos_por_anyo2 ==
    Call("numero_avistamientos_por_anyo2", <<>>,
         numero_avistamientos_por_anyo2(avistamientos))

Call_numero_avistamientos_por_anyo3 ==
    Call("numero_avistamientos_por_anyo3", <<>>,
         numero_avistamientos_por_anyo3(avistamientos))

Call_avistamientos_por_fecha ==
    Call("avistamientos_por_fecha", <<>>,
         avistamientos_por_fecha(avistamientos))

Call_estado_mas_avistamientos ==
    Call("estado_mas_avistamientos", <<>>,
         estado_mas_avistamientos(avistamientos))

Call_hora_mas_avistamientos ==
    Call("hora_mas_avistamientos", <<>>,
         hora_mas_avistamientos(avistamientos))

Call_anyo_mas_avistamientos_forma ==
    \E forma \in ArgFormas :
        Call("anyo_mas_avistamientos_forma", <<forma>>,
             anyo_mas_avistamientos_forma(avistamientos, forma))

Call_estados_mas_avistamientos ==
    \E n \in ArgN :
        Call("estados_mas_avistamientos", <<n>>,
             estados_mas_avistamientos(avistamientos, n))

Call_duracion_total_avistamientos_anyo ==
    \E estado \in ArgEstados :
        Call("duracion_total_avistamientos_anyo", <<estado>>,
             duracion_total_avistamientos_anyo(avistamientos, estado))

\* the functions that return a set, and those that return a list or a dict
DevuelvenConjunto ==
    {"avistamientos_cercanos_ubicacion", "avistamientos_cercanos_ubicacion2"}

DevuelvenListaODict ==
    {"avistamientos_fechas", "avistamientos_por_fecha",
     "avistamientos_por_fecha2", "formas_por_mes",
     "numero_avistamientos_por_anyo", "numero_avistamientos_por_anyo2",
     "numero_avistamientos_por_anyo3",
     "longitud_media_comentarios_por_estado",
     "porc_avistamientos_por_forma", "avistamientos_mayor_duracion_por_estado"}

\* The caller empties the collection that the last call returned (clear() of
\* a list, a set or a dict).  When that object is the caller's list, it is
\* the list that is emptied.
Clear ==
    /\ op \in DevuelvenConjunto \cup DevuelvenListaODict
    /\ res.kind = "value"
    /\ op' = "clear"
    /\ args' = <<>>
    /\ res' = Value(IF op \in DevuelvenConjunto THEN {} ELSE <<>>)
    /\ avistamientos' = IF aliased THEN <<>> ELSE avistamientos
    /\ UNCHANGED aliased

\* the caller is done with the outcome of the last call
Discard ==
    /\ op # ""
    /\ op' = ""
    /\ args' = <<>>
    /\ res' = None
    /\ aliased' = FALSE
    /\ UNCHANGED avistamientos

Next ==
    \/ Call_numero_avistamientos_fecha
    \/ Call_avistamientos_cercanos_ubicacion
    \/ Call_avistamiento_mayor_duracion
    \/ Call_avistamiento_cercano_mayor_duracion
    \/ Call_avistamientos_fechas
    \/ Call_comentario_mas_largo
    \/ Call_media_dias_entre_avistamientos
    \/ Call_longitud_media_comentarios_por_estado
    \/ Call_porc_avistamientos_por_forma
    \/ Call_avistamientos_mayor_duracion_por_estado
    \/ Call_numero_avistamientos_fecha2
    \/ Call_formas_estados
    \/ Call_formas_estados2
    \/ Call_duracion_total
    \/ Call_duracion_total2
    \/ Call_avistamientos_cercanos_ubicacion2
    \/ Call_avistamiento_mayor_duracion2
    \/ Call_avistamientos_por_fecha
    \/ Call_avistamientos_por_fecha2
    \/ Call_formas_por_mes
    \/ Call_formas_por_mes2
    \/ Call_numero_avistamientos_por_anyo
    \/ Call_numero_avistamientos_por_anyo2
    \/ Call_numero_avistamientos_por_anyo3
    \/ Call_estado_mas_avistamientos
    \/ Call_hora_mas_avistamientos
    \/ Call_anyo_mas_avistamientos_forma
    \/ Call_estados_mas_avistamientos
    \/ Call_duracion_total_avistamientos_anyo
    \/ Clear
    \/ Discard

Spec == Init /\ [][Next]_vars

(***************************************************************************)
(* Properties                                                              *)
(***************************************************************************)
\* number of occurrences of x in the list s
Count(s, x) == Cardinality({i \in 1..Len(s) : s[i] = x})

\* minutes since the start of the calendar: the position of a timestamp
Minutes(dt) == (Toordinal(DateOf(dt)) * 24 + dt.hour) * 60 + dt.minute

RECURSIVE SumOver(_, _)
\* sum of f[x] over the finite set S
SumOver(S, f) ==
    IF S = {} THEN 0
    ELSE LET x == CHOOSE y \in S : TRUE IN f[x] + SumOver(S \ {x}, f)

\* a's calendar date lies in [fi, ff], an absent bound not constraining
InDateRange(a, fi, ff) ==
    /\ (fi = None \/ Toordinal(fi) <= Toordinal(DateOf(a.fechahora)))
    /\ (ff = None \/ Toordinal(DateOf(a.fechahora)) <= Toordinal(ff))

\* every record occurs in list s at most as often as in list t
SubBag(s, t) == \A a \in Range(s) : Count(s, a) <= Count(t, a)

\* C1: avistamientos_fechas returns exactly the input records (with their
\* multiplicity) whose date lies in the inclusive range, an absent bound not
\* constraining; ordered by timestamp descending; records with equal
\* timestamps keep their input order; the result for (a, b) is contained in
\* the result for (None, b), which is contained in the input.
C1_FechasRangoOrdenEstable ==
    op = "avistamientos_fechas" =>
        LET fi == args[1]
            ff == args[2]
            r  == res.val
        IN  /\ res.kind = "value"
            /\ \A a \in Range(avistamientos) \cup Range(r) :
                    Count(r, a) = IF InDateRange(a, fi, ff)
                                  THEN Count(avistamientos, a) ELSE 0
            /\ \A i \in 1..(Len(r) - 1) :
                    Minutes(r[i].fechahora) >= Minutes(r[i + 1].fechahora)
            /\ \A t \in {a.fechahora : a \in Range(r)} :
                    SelectSeq(r, LAMBDA a : a.fechahora = t)
                        = SelectSeq(avistamientos,
                            LAMBDA a : a.fechahora = t /\ InDateRange(a, fi, ff))
            /\ (fi = None /\ ff = None) => Len(r) = Len(avistamientos)
            /\ SubBag(r, avistamientos_fechas(avistamientos, None, ff).val)
            /\ SubBag(avistamientos_fechas(avistamientos, None, ff).val,
                      avistamientos)

\* C1 witness: a call with both bounds given whose result holds two different
\* records of one timestamp after a later one, one input record being out of
\* the range or moved by the sort.
C1_Witness ==
    /\ op = "avistamientos_fechas"
    /\ args[1] # None /\ args[2] # None
    /\ Len(res.val) = 3
    /\ res.val # avistamientos
    /\ Minutes(res.val[1].fechahora) > Minutes(res.val[2].fechahora)
    /\ res.val[2].fechahora = res.val[3].fechahora
    /\ res.val[2] # res.val[3]

\* C2: numero_avistamientos_fecha is the number of input records, counting
\* duplicates, whose calendar date is the given one; over the distinct dates
\* of a non-empty input the counts add up to the length of the input.
C2_NumeroPorFecha ==
    op = "numero_avistamientos_fecha" =>
        LET fechas == {DateOf(a.fechahora) : a \in Range(avistamientos)}
        IN  /\ res.kind = "value"
            /\ res.val = Cardinality({i \in 1..Len(avistamientos) :
                    DateOf(avistamientos[i].fechahora) = args[1]})
            /\ avistamientos # <<>> =>
                    SumOver(fechas,
                        [d \in fechas |->
                            numero_avistamientos_fecha(avistamientos, d).val])
                        = Len(avistamientos)

\* C2 witness: a date on which the same record occurs twice, another record
\* being of another date.
C2_Witness ==
    /\ op = "numero_avistamientos_fecha"
    /\ Len(avistamientos) = 3
    /\ avistamientos[1] = avistamientos[3]
    /\ DateOf(avistamientos[1].fechahora) = args[1]
    /\ DateOf(avistamientos[2].fechahora) # args[1]
    /\ res.val = 2

\* squared distance on raw latitude and longitude
Dist2(p, q) ==
    (p.latitud - q.latitud) * (p.latitud - q.latitud)
        + (p.longitud - q.longitud) * (p.longitud - q.longitud)

\* the point p is at a distance below the radius r (r >= 0, a fraction)
Within(p, q, r) == Dist2(p, q) * r.den * r.den < r.num * r.num

\* C3: avistamientos_cercanos_ubicacion returns exactly the set of distinct
\* records at a distance strictly below the radius; the result grows with
\* the radius; the distance is symmetric and not negative.
C3_CercanosEstricto ==
    op = "avistamientos_cercanos_ubicacion" =>
        LET p == args[1]
            r == args[2]
        IN  /\ res.kind = "value"
            /\ res.val = {a \in Range(avistamientos) : Within(a.ubicacion, p, r)}
            /\ \A r2 \in ArgRadios :
                    r.num * r2.den < r2.num * r.den =>
                        res.val \subseteq
                            avistamientos_cercanos_ubicacion(avistamientos, p, r2).val
            /\ \A a \in Range(avistamientos) :
                    /\ distancia(a.ubicacion, p) = distancia(p, a.ubicacion)
                    /\ distancia(a.ubicacion, p) >= 0

\* C3 witness: a record at a distance exactly the radius is left out, and a
\* record that occurs twice in the input is one element of the result.
C3_Witness ==
    /\ op = "avistamientos_cercanos_ubicacion"
    /\ \E i, j, k \in 1..Len(avistamientos) :
            /\ i # j
            /\ avistamientos[i] = avistamientos[j]
            /\ avistamientos[i] \in res.val
            /\ distancia(avistamientos[k].ubicacion, args[1]) * args[2].den
                    = args[2].num
            /\ avistamientos[k] \notin res.val
    /\ Cardinality(res.val) = 1

\* exceptions of the language itself, raised by built-ins and operators
BuiltinExceptions ==
    {"ValueError", "TypeError", "ZeroDivisionError", "IndexError", "KeyError"}

\* the record of the input at position i may be chosen by comentario_mas_largo
EligibleComment(a, anyo, palabra) ==
    /\ a.fechahora.year = anyo
    /\ Contains(Lower(palabra), Lower(a.comentarios))

\* C4: when no record is eligible, avistamiento_mayor_duracion and
\* comentario_mas_largo report a distinguishable no-result outcome: they
\* return no record and do not fail with a generic error.
C4_SinResultadoDistinguible ==
    /\ (/\ op = "avistamiento_mayor_duracion"
        /\ \A a \in Range(avistamientos) : a.forma # args[1])
            => res.kind \notin {"value"} \cup BuiltinExceptions
    /\ (/\ op = "comentario_mas_largo"
        /\ \A a \in Range(avistamientos) : ~EligibleComment(a, args[1], args[2]))
            => res.kind \notin {"value"} \cup BuiltinExceptions

\* C5: avistamiento_cercano_mayor_duracion returns None exactly when no
\* record is at a distance below the radius; otherwise the greatest
\* (duracion, comentarios) pair of the records below the radius, duration
\* first and then comments in code point order.
C5_CercanoMayorDuracion ==
    op = "avistamiento_cercano_mayor_duracion" =>
        LET cerca == {a \in Range(avistamientos) :
                        Within(a.ubicacion, args[1], args[2])}
        IN  /\ (res = None) <=> (cerca = {})
            /\ cerca # {} =>
                /\ res.kind = "value"
                /\ \E a \in cerca : res.val = <<a.duracion, a.comentarios>>
                /\ \A a \in cerca :
                    \/ a.duracion < res.val[1]
                    \/ /\ a.duracion = res.val[1]
                       /\ ~SeqLT(res.val[2], a.comentarios)

\* C5 witness: two records below the radius tie on the greatest duration and
\* differ in their comments; the pair with the greater comments is returned;
\* a third record is not below the radius.
C5_Witness ==
    /\ op = "avistamiento_cercano_mayor_duracion"
    /\ res.kind = "value"
    /\ \E a \in Range(avistamientos) :
            /\ Within(a.ubicacion, args[1], args[2])
            /\ a.duracion = res.val[1]
            /\ SeqLT(a.comentarios, res.val[2])
    /\ \E a \in Range(avistamientos) : ~Within(a.ubicacion, args[1], args[2])

\* positions of the input that media_dias_entre_avistamientos considers
Considered(anyo) ==
    {i \in 1..Len(avistamientos) :
        anyo = None \/ avistamientos[i].fechahora.year = anyo.val}

\* C6: media_dias_entre_avistamientos considers all records or those of the
\* year, orders them ascending by timestamp and returns the mean of the
\* calendar-day differences of consecutive records (19/2 for the dates
\* 2020-01-01, 2020-01-10, 2020-01-20); None exactly when fewer than 2
\* records are considered.
C6_MediaDias ==
    op = "media_dias_entre_avistamientos" =>
        LET idx == Considered(args[1])
            k   == Cardinality(idx)
            fecha(i) == DateOf(avistamientos[i].fechahora)
        IN  /\ (res = None) <=> (k < 2)
            /\ k >= 2 =>
                /\ res.kind = "value"
                /\ \E f \in [1..k -> idx] :
                    /\ \A i, j \in 1..k : i # j => f[i] # f[j]
                    /\ \A j \in 1..(k - 1) :
                        Minutes(avistamientos[f[j]].fechahora)
                            <= Minutes(avistamientos[f[j + 1]].fechahora)
                    /\ res.val =
                        Frac(SumOver(1..(k - 1),
                                [j \in 1..(k - 1) |->
                                    Toordinal(fecha(f[j + 1])) - Toordinal(fecha(f[j]))]),
                             k - 1)
            /\ (k = 3 /\ {fecha(i) : i \in idx}
                    = {MkDate(2020, 1, 1), MkDate(2020, 1, 10), MkDate(2020, 1, 20)})
                => res.val = Frac(19, 2)

\* C6 witness: the dates 2020-01-01, 2020-01-10 and 2020-01-20, given out of
\* order, with no year: the mean is 19/2 = 9.5.
C6_Witness ==
    /\ op = "media_dias_entre_avistamientos"
    /\ args[1] = None
    /\ Len(avistamientos) = 3
    /\ DateOf(avistamientos[1].fechahora) = MkDate(2020, 1, 20)
    /\ DateOf(avistamientos[2].fechahora) = MkDate(2020, 1, 1)
    /\ DateOf(avistamientos[3].fechahora) = MkDate(2020, 1, 10)
    /\ res = Value(Frac(19, 2))

\* positions of the input whose record is of state e
OfState(e) == {i \in 1..Len(avistamientos) : avistamientos[i].estado = e}

\* position i comes before position j in the ranking of a state: longer
\* duration first, and the earlier position among equal durations
RankedBefore(i, j) ==
    \/ avistamientos[i].duracion > avistamientos[j].duracion
    \/ /\ avistamientos[i].duracion = avistamientos[j].duracion
       /\ i < j

\* C7: avistamientos_mayor_duracion_por_estado(n) maps each state of the
\* input to its n longest records (all when it has fewer), by duration
\* descending, records of equal duration in input order, the earlier ones
\* kept when a tie straddles the cut.
C7_MayorDuracionPorEstado ==
    op = "avistamientos_mayor_duracion_por_estado" =>
        LET n == args[1]
            d == res.val
        IN  /\ res.kind = "value"
            /\ {d[i][1] : i \in 1..Len(d)}
                    = {a.estado : a \in Range(avistamientos)}
            /\ \A i, j \in 1..Len(d) : i # j => d[i][1] # d[j][1]
            /\ \A i \in 1..Len(d) :
                LET idx == OfState(d[i][1])
                    l   == d[i][2]
                    rank(p) == 1 + Cardinality({q \in idx : RankedBefore(q, p)})
                IN  /\ Len(l) <= n
                    /\ Len(l) = IF Cardinality(idx) < n THEN Cardinality(idx) ELSE n
                    /\ \A k \in 1..(Len(l) - 1) :
                            l[k].duracion >= l[k + 1].duracion
                    /\ \A p \in idx :
                            rank(p) <= Len(l) => l[rank(p)] = avistamientos[p]

\* C7 witness: n = 2 and a state with three records, the longest given
\* second; the first and the third differ and tie on the duration: the cut
\* keeps the first.
C7_Witness ==
    /\ op = "avistamientos_mayor_duracion_por_estado"
    /\ args[1] = 2
    /\ Len(avistamientos) = 3
    /\ \A i \in 1..3 : avistamientos[i].estado = avistamientos[1].estado
    /\ avistamientos[2].duracion > avistamientos[1].duracion
    /\ avistamientos[3].duracion = avistamientos[1].duracion
    /\ avistamientos[3] # avistamientos[1]
    /\ res.val = <<<<avistamientos[1].estado,
                     <<avistamientos[2], avistamientos[1]>>>>>>

\* positions of the input whose record is of the year
OfYear(anyo) ==
    {i \in 1..Len(avistamientos) : avistamientos[i].fechahora.year = anyo}

\* C8: with a year, porc_avistamientos_por_forma maps each shape of the
\* records of that year to 100 * (records of the year with the shape) /
\* (records of the year); the values add up to 100 when the year has
\* records; the denominator is not the length of the whole input.
C8_PorcentajePorForma ==
    (op = "porc_avistamientos_por_forma" /\ Len(args) = 1) =>
        LET pob == OfYear(args[1])
            d   == res.val
        IN  /\ res.kind = "value"
            /\ {d[i][1] : i \in 1..Len(d)}
                    = {avistamientos[i].forma : i \in pob}
            /\ \A i, j \in 1..Len(d) : i # j => d[i][1] # d[j][1]
            /\ \A i \in 1..Len(d) :
                /\ d[i][2].den = Cardinality(pob)
                /\ d[i][2].num = 100 * Cardinality(
                        {p \in pob : avistamientos[p].forma = d[i][1]})
            /\ pob # {} =>
                    SumOver(1..Len(d), [i \in 1..Len(d) |-> d[i][2].num])
                        = 100 * Cardinality(pob)

\* C8 witness: two shapes in the year and a record of another year: the
\* percentages are 50 and 50, not 33.3 and 33.3.
C8_Witness ==
    /\ op = "porc_avistamientos_por_forma"
    /\ Len(args) = 1
    /\ Len(avistamientos) = 3
    /\ Cardinality(OfYear(args[1])) = 2
    /\ res.kind = "value"
    /\ Len(res.val) = 2
    /\ res.val[1][2] = Frac(100, 2)

\* C9: the year of porc_avistamientos_por_forma is optional: a call with the
\* record list alone succeeds and gives each shape's percentage of the whole
\* input.
C9_AnyoOpcional ==
    (op = "porc_avistamientos_por_forma" /\ Len(args) = 0) =>
        /\ res.kind = "value"
        /\ \A i \in 1..Len(res.val) :
            res.val[i][2] =
                Frac(100 * Cardinality({p \in 1..Len(avistamientos) :
                                avistamientos[p].forma = res.val[i][1]}),
                     Len(avistamientos))

\* C10: no percentage or mean operation fails with a division by zero: with
\* no record to divide by, porc_avistamientos_por_forma(year) and
\* longitud_media_comentarios_por_estado return the empty mapping and
\* media_dias_entre_avistamientos returns None.
C10_SinDivisionPorCero ==
    /\ op \in {"porc_avistamientos_por_forma",
               "longitud_media_comentarios_por_estado",
               "media_dias_entre_avistamientos"}
            => res.kind # "ZeroDivisionError"
    /\ (/\ op = "porc_avistamientos_por_forma"
        /\ Len(args) = 1
        /\ OfYear(args[1]) = {})
            => res = Value(<<>>)
    /\ (op = "longitud_media_comentarios_por_estado" /\ avistamientos = <<>>)
            => res = Value(<<>>)
    /\ (/\ op = "media_dias_entre_avistamientos"
        /\ Cardinality(Considered(args[1])) < 2)
            => res = None

\* C10 witness: the mean of the day gaps is asked for a year that has a
\* single record, in an input of several records.
C10_Witness ==
    /\ op = "media_dias_entre_avistamientos"
    /\ Len(avistamientos) = 3
    /\ args[1] # None
    /\ Cardinality(Considered(args[1])) = 1
    /\ res = None

\* the list s is in ascending order of the whole records
Ascending(s) ==
    \A i \in 1..(Len(s) - 1) : ~AvistamientoLT(s[i + 1], s[i])

\* C11: no call changes the caller's list: after every step of the engine,
\* the sorting functions included, and after the caller has emptied a
\* collection that was returned, the list holds the same records in the same
\* order; and no object returned is the caller's list itself.
C11_EntradaIntacta ==
    [][avistamientos' = avistamientos /\ ~aliased']_vars

\* C11 witness: the mean of the day gaps has been computed, with no year,
\* over three records that are not in ascending order: the list is the one
\* that media_dias_entre_avistamientos sorts, and it is still out of order.
C11_Witness ==
    /\ op = "media_dias_entre_avistamientos"
    /\ args[1] = None
    /\ res.kind = "value"
    /\ Len(avistamientos) = 3
    /\ ~Ascending(avistamientos)
    /\ ~aliased

\* position of the first record of the input whose state is e, and whose
\* hour is h
FirstOfState(e) ==
    CHOOSE i \in 1..Len(avistamientos) :
        /\ avistamientos[i].estado = e
        /\ \A j \in 1..(i - 1) : avistamientos[j].estado # e

FirstOfHour(h) ==
    CHOOSE i \in 1..Len(avistamientos) :
        /\ avistamientos[i].fechahora.hour = h
        /\ \A j \in 1..(i - 1) : avistamientos[j].fechahora.hour # h

\* positions of the input whose record is of hour h
OfHour(h) ==
    {i \in 1..Len(avistamientos) : avistamientos[i].fechahora.hour = h}

\* C12: on a list that is not empty, estado_mas_avistamientos returns a
\* state of the input that no state exceeds in number of records, and
\* hora_mas_avistamientos an hour in 0..23 that no hour exceeds; among
\* the keys of the greatest count the one returned is the one whose first
\* record comes earliest in the input.
C12_MasAvistamientos ==
    /\ (op = "estado_mas_avistamientos" /\ avistamientos # <<>>) =>
            /\ res.kind = "value"
            /\ OfState(res.val) # {}
            /\ \A a \in Range(avistamientos) :
                    /\ Cardinality(OfState(a.estado))
                            <= Cardinality(OfState(res.val))
                    /\ Cardinality(OfState(a.estado))
                            = Cardinality(OfState(res.val))
                        => FirstOfState(res.val) <= FirstOfState(a.estado)
    /\ (op = "hora_mas_avistamientos" /\ avistamientos # <<>>) =>
            /\ res.kind = "value"
            /\ res.val \in 0..23
            /\ OfHour(res.val) # {}
            /\ \A a \in Range(avistamientos) :
                    /\ Cardinality(OfHour(a.fechahora.hour))
                            <= Cardinality(OfHour(res.val))
                    /\ Cardinality(OfHour(a.fechahora.hour))
                            = Cardinality(OfHour(res.val))
                        => FirstOfHour(res.val) <= FirstOfHour(a.fechahora.hour)

\* C12 witness: two states with one record each, the first of them the
\* greater in alphabetical order: the state of the first record is returned.
C12_Witness ==
    /\ op = "estado_mas_avistamientos"
    /\ Len(avistamientos) = 2
    /\ StrLT(avistamientos[2].estado, avistamientos[1].estado)
    /\ res = Value(avistamientos[1].estado)

\* positions of the input whose record is of the shape, and of the year too
OfShape(forma) ==
    {i \in 1..Len(avistamientos) : avistamientos[i].forma = forma}

OfShapeYear(forma, anyo) ==
    {i \in OfShape(forma) : avistamientos[i].fechahora.year = anyo}

\* positions of the input whose record is of the state and of the year
OfStateYear(e, anyo) ==
    {i \in OfState(e) : avistamientos[i].fechahora.year = anyo}

\* C13: the three functions left as exercises do what their documentation
\* says.  año_mas_avistamientos_forma returns a year that no year exceeds in
\* records of the shape; estados_mas_avistamientos returns at most n pairs
\* (state, number of records) of different states, in descending order of
\* the number, no state left out having more records than one returned;
\* duracion_total_avistamientos_año maps each year in which the state has
\* records to the sum of their durations.
C13_EjerciciosCumplenContrato ==
    /\ (op = "anyo_mas_avistamientos_forma" /\ OfShape(args[1]) # {}) =>
            /\ res.kind = "value"
            /\ OfShapeYear(args[1], res.val) # {}
            /\ \A i \in OfShape(args[1]) :
                    Cardinality(OfShapeYear(args[1], avistamientos[i].fechahora.year))
                        <= Cardinality(OfShapeYear(args[1], res.val))
    /\ op = "estados_mas_avistamientos" =>
            /\ res.kind = "value"
            /\ LET l == res.val
                    estados == {a.estado : a \in Range(avistamientos)}
                IN  /\ Len(l) = IF Cardinality(estados) < args[1]
                                THEN Cardinality(estados) ELSE args[1]
                    /\ \A i \in 1..Len(l) :
                            /\ l[i][1] \in estados
                            /\ l[i][2] = Cardinality(OfState(l[i][1]))
                    /\ \A i, j \in 1..Len(l) : i # j => l[i][1] # l[j][1]
                    /\ \A i \in 1..(Len(l) - 1) : l[i][2] >= l[i + 1][2]
                    /\ \A e \in estados \ {l[i][1] : i \in 1..Len(l)} :
                            \A i \in 1..Len(l) :
                                Cardinality(OfState(e)) <= l[i][2]
    /\ op = "duracion_total_avistamientos_anyo" =>
            /\ res.kind = "value"
            /\ LET d == res.val
                IN  /\ {d[i][1] : i \in 1..Len(d)}
                            = {avistamientos[i].fechahora.year : i \in OfState(args[1])}
                    /\ \A i, j \in 1..Len(d) : i # j => d[i][1] # d[j][1]
                    /\ \A i \in 1..Len(d) :
                            d[i][2] = SumOver(OfStateYear(args[1], d[i][1]),
                                        [p \in OfStateYear(args[1], d[i][1]) |->
                                            avistamientos[p].duracion])

\* positions of the input whose record is of the calendar date
OfDate(fecha) ==
    {i \in 1..Len(avistamientos) : DateOf(avistamientos[i].fechahora) = fecha}

\* C14: the keys of avistamientos_por_fecha are the calendar dates of the
\* input, each once; a date maps to the set of the records of that date, a
\* set that is not empty and holds no record of another date; the set has at
\* most numero_avistamientos_fecha records, and exactly that many when no
\* two records of the date are equal.
C14_PorFecha ==
    op = "avistamientos_por_fecha" =>
        LET d == res.val
        IN  /\ res.kind = "value"
            /\ {d[i][1] : i \in 1..Len(d)}
                    = {DateOf(a.fechahora) : a \in Range(avistamientos)}
            /\ \A i, j \in 1..Len(d) : i # j => d[i][1] # d[j][1]
            /\ \A i \in 1..Len(d) :
                LET fecha == d[i][1]
                    n == numero_avistamientos_fecha(avistamientos, fecha).val
                IN  /\ d[i][2] # {}
                    /\ d[i][2] = {avistamientos[p] : p \in OfDate(fecha)}
                    /\ \A a \in d[i][2] : DateOf(a.fechahora) = fecha
                    /\ Cardinality(d[i][2]) <= n
                    /\ (Cardinality(d[i][2]) = n) <=>
                            \A p, q \in OfDate(fecha) :
                                p # q => avistamientos[p] # avistamientos[q]

\* C14 witness: a record given twice and a record of another date: two
\* dates, and the set of the first date has one record where the date has
\* two.
C14_Witness ==
    /\ op = "avistamientos_por_fecha"
    /\ Len(avistamientos) = 3
    /\ avistamientos[1] = avistamientos[3]
    /\ DateOf(avistamientos[2].fechahora) # DateOf(avistamientos[1].fechahora)
    /\ Len(res.val) = 2
    /\ Cardinality(res.val[1][2]) = 1
    /\ numero_avistamientos_fecha(avistamientos, res.val[1][1]).val = 2

\* the numbered variants whose body is written return what the function of
\* the same name returns, and raise what it raises
VariantesEscritas ==
    /\ op = "numero_avistamientos_fecha2" =>
            res = numero_avistamientos_fecha(avistamientos, args[1])
    /\ op = "formas_estados2" =>
            res = formas_estados(avistamientos, args[1])
    /\ op = "duracion_total2" =>
            res = duracion_total(avistamientos, args[1])
    /\ op = "avistamientos_cercanos_ubicacion2" =>
            res = avistamientos_cercanos_ubicacion(avistamientos, args[1], args[2])
    /\ op = "avistamiento_mayor_duracion2" =>
            res = avistamiento_mayor_duracion(avistamientos, args[1])
    /\ op = "avistamientos_por_fecha2" =>
            res = avistamientos_por_fecha(avistamientos)
    /\ op = "numero_avistamientos_por_anyo2" =>
            res = numero_avistamientos_por_anyo(avistamientos)
    /\ op = "numero_avistamientos_por_anyo3" =>
            res = numero_avistamientos_por_anyo(avistamientos)

\* C15: every numbered variant returns what the function of the same name
\* without the number returns on the same arguments, and fails when it
\* fails: numero_avistamientos_fecha2, formas_estados2, duracion_total2,
\* avistamientos_cercanos_ubicacion2, avistamiento_mayor_duracion2,
\* avistamientos_por_fecha2, formas_por_mes2, numero_avistamientos_por_año2
\* and numero_avistamientos_por_año3.
C15_VariantesEquivalentes ==
    /\ VariantesEscritas
    /\ op = "formas_por_mes2" => res = formas_por_mes(avistamientos)

\* the list s with its positions permuted by f
Permuted(s, f) == [i \in 1..Len(s) |-> s[f[i]]]

\* the mean of the day gaps of the list l taken in ascending order of the
\* timestamps alone, records of one timestamp in the order of l
MediaPorFechahora(l) ==
    LET s == Sorted(l, LtFechahora(l), FALSE)
    IN  Frac(SumSeq(DiasConsecutivos(s)), Len(s) - 1)

\* C16: when media_dias_entre_avistamientos considers k >= 2 records, the
\* result is (latest date - earliest date, in days) / (k - 1) and is not
\* negative; it is the same for every reordering of the input, and for
\* every order in which records of one timestamp may be sorted.
C16_MediaExtremos ==
    (/\ op = "media_dias_entre_avistamientos"
     /\ Cardinality(Considered(args[1])) >= 2) =>
        LET idx  == Considered(args[1])
            k    == Cardinality(idx)
            dias == {Toordinal(DateOf(avistamientos[i].fechahora)) : i \in idx}
            hi   == CHOOSE d \in dias : \A e \in dias : e <= d
            lo   == CHOOSE d \in dias : \A e \in dias : d <= e
        IN  /\ res.kind = "value"
            /\ res.val = Frac(hi - lo, k - 1)
            /\ res.val.num >= 0 /\ res.val.den > 0
            /\ \A f \in Permutations(1..Len(avistamientos)) :
                LET otra == Permuted(avistamientos, f)
                    considerados ==
                        SelectSeq(otra, LAMBDA a :
                            args[1] = None \/ a.fechahora.year = args[1].val)
                IN  /\ media_dias_entre_avistamientos(otra, args[1]) = res
                    /\ MediaPorFechahora(considerados) = res.val

\* C16 witness: three records with no year given, two of them different
\* records of one timestamp and one of a later day, not given in ascending
\* order: the mean is the days between the two dates, over 2.
C16_Witness ==
    /\ op = "media_dias_entre_avistamientos"
    /\ args[1] = None
    /\ Len(avistamientos) = 3
    /\ ~Ascending(avistamientos)
    /\ \E i, j \in 1..3 :
            /\ avistamientos[i].fechahora = avistamientos[j].fechahora
            /\ avistamientos[i] # avistamientos[j]
    /\ res.kind = "value"
    /\ res.val.num > 0
    /\ res.val.den = 2

====
